---- MODULE Spec2Model ----
(***************************************************************************)
(* NanoBanana Pro API: the Request Gateway (app.py generate_image), the    *)
(* Automation Core (core.py generate) and the Media Relay (app.py          *)
(* proxy_image), with the pure helpers they use.                           *)
(*                                                                         *)
(* Text values (locators, tokens, JSON string values) are sequences of     *)
(* Unicode code points; dict keys and enumerated codes are TLA+ strings.   *)
(***************************************************************************)
EXTENDS Integers, Sequences, FiniteSets, TLC

\* ------------------------------------------------------------------------
\*  Text helpers
\* ------------------------------------------------------------------------

\* The printable ASCII characters from code point 32 (blank) on; '~' holds
\* the place of the three characters no literal of this module uses.
AsciiTable == " !~#$%&'()*+,-./0123456789:;<=>?@ABCDEFGHIJKLMNOPQRSTUVWXYZ[~]^_~abcdefghijklmnopqrstuvwxyz{|}"

Ord(c) == 31 + CHOOSE i \in 1..Len(AsciiTable) : SubSeq(AsciiTable, i, i) = c

\* The code points of a literal
Cp(s) == [i \in 1..Len(s) |-> Ord(SubSeq(s, i, i))]

StartsWith(s, p) == Len(s) >= Len(p) /\ SubSeq(s, 1, Len(p)) = p

EndsWith(s, p) == Len(s) >= Len(p) /\ SubSeq(s, Len(s) - Len(p) + 1, Len(s)) = p

Contains(s, p) == \E i \in 1..(Len(s) - Len(p) + 1) : SubSeq(s, i, i + Len(p) - 1) = p

RECURSIVE Repeat(_, _)
Repeat(c, n) == IF n <= 0 THEN <<>> ELSE <<c>> \o Repeat(c, n - 1)

\* ------------------------------------------------------------------------
\*  UTF-8 (str.encode / bytes.decode)
\* ------------------------------------------------------------------------

Utf8Char(cp) ==
    IF cp < 128 THEN <<cp>>
    ELSE IF cp < 2048 THEN <<192 + (cp \div 64), 128 + (cp % 64)>>
    ELSE IF cp < 65536 THEN
        <<224 + (cp \div 4096), 128 + ((cp \div 64) % 64), 128 + (cp % 64)>>
    ELSE <<240 + (cp \div 262144), 128 + ((cp \div 4096) % 64),
           128 + ((cp \div 64) % 64), 128 + (cp % 64)>>

\* The encoding of a text is the concatenation of the encodings of its
\* characters; the text is halved to keep the evaluation shallow.
RECURSIVE Utf8Encode(_)
Utf8Encode(s) ==
    IF s = <<>> THEN <<>>
    ELSE IF Len(s) = 1 THEN Utf8Char(s[1])
    ELSE LET h == Len(s) \div 2 IN
         Utf8Encode(SubSeq(s, 1, h)) \o Utf8Encode(SubSeq(s, h + 1, Len(s)))

IsCont(b) == b >= 128 /\ b <= 191

DecodeFailed == [ok |-> FALSE, val |-> <<>>]

\* Strict decoding of the bytes of one character: a lead byte and its
\* continuation bytes, no overlong form, no surrogate
Utf8DecodeChar(bs) ==
    LET b == bs[1] IN
    IF b < 128 /\ Len(bs) = 1 THEN [ok |-> TRUE, val |-> <<b>>]
    ELSE IF b >= 194 /\ b <= 223 /\ Len(bs) = 2 THEN
        [ok |-> TRUE, val |-> <<(b - 192) * 64 + (bs[2] - 128)>>]
    ELSE IF b >= 224 /\ b <= 239 /\ Len(bs) = 3
            /\ (b = 224 => bs[2] >= 160) /\ (b = 237 => bs[2] <= 159) THEN
        [ok |-> TRUE, val |-> <<(b - 224) * 4096 + (bs[2] - 128) * 64 + (bs[3] - 128)>>]
    ELSE IF b >= 240 /\ b <= 244 /\ Len(bs) = 4
            /\ (b = 240 => bs[2] >= 144) /\ (b = 244 => bs[2] <= 143) THEN
        [ok |-> TRUE,
         val |-> <<(b - 240) * 262144 + (bs[2] - 128) * 4096
                   + (bs[3] - 128) * 64 + (bs[4] - 128)>>]
    ELSE DecodeFailed

Dist(a, b) == IF a < b THEN b - a ELSE a - b

\* Strict decoding, [ok, val]; ok = FALSE stands for UnicodeDecodeError.
\* The bytes are cut before a byte that starts a character (the one nearest
\* to the middle) until each piece holds one lead byte and what continues it.
RECURSIVE Utf8Decode(_)
Utf8Decode(bs) ==
    IF bs = <<>> THEN [ok |-> TRUE, val |-> <<>>]
    ELSE LET cuts == {i \in 2..Len(bs) : ~IsCont(bs[i])}
             mid  == (Len(bs) \div 2) + 1
         IN
      IF cuts = {} THEN Utf8DecodeChar(bs)
      ELSE LET m == CHOOSE i \in cuts : \A j \in cuts : Dist(i, mid) <= Dist(j, mid)
               l == Utf8Decode(SubSeq(bs, 1, m - 1))
               r == Utf8Decode(SubSeq(bs, m, Len(bs)))
           IN IF l.ok /\ r.ok THEN [ok |-> TRUE, val |-> l.val \o r.val] ELSE DecodeFailed

\* ------------------------------------------------------------------------
\*  base64.urlsafe_b64encode / urlsafe_b64decode
\* ------------------------------------------------------------------------

PadChar == 61

\* The URL-safe alphabet: A-Z a-z 0-9 - _
UrlsafeChar(i) ==
    IF i < 26 THEN 65 + i
    ELSE IF i < 52 THEN 97 + (i - 26)
    ELSE IF i < 62 THEN 48 + (i - 52)
    ELSE IF i = 62 THEN 45 ELSE 95

\* The value of a token character, -1 for a character outside the alphabet;
\* urlsafe_b64decode maps '-' and '_' onto '+' and '/', which stay valid.
B64Value(c) ==
    IF c >= 65 /\ c <= 90 THEN c - 65
    ELSE IF c >= 97 /\ c <= 122 THEN c - 97 + 26
    ELSE IF c >= 48 /\ c <= 57 THEN c - 48 + 52
    ELSE IF c = 45 \/ c = 43 THEN 62
    ELSE IF c = 95 \/ c = 47 THEN 63
    ELSE -1

\* Character k of the encoding: every three bytes give four characters, a
\* last group of one or two bytes is filled up with pad characters
B64EncodeAt(bs, k) ==
    LET g  == (k - 1) \div 4
        r  == (k - 1) % 4
        n  == Len(bs)
        b1 == bs[3 * g + 1]
        b2 == IF 3 * g + 2 <= n THEN bs[3 * g + 2] ELSE 0
        b3 == IF 3 * g + 3 <= n THEN bs[3 * g + 3] ELSE 0
    IN IF r = 0 THEN UrlsafeChar(b1 \div 4)
       ELSE IF r = 1 THEN UrlsafeChar((b1 % 4) * 16 + (b2 \div 16))
       ELSE IF r = 2 THEN
           IF 3 * g + 2 > n THEN PadChar ELSE UrlsafeChar((b2 % 16) * 4 + (b3 \div 64))
       ELSE IF 3 * g + 3 > n THEN PadChar ELSE UrlsafeChar(b3 % 64)

B64Encode(bs) == [k \in 1..(4 * ((Len(bs) + 2) \div 3)) |-> B64EncodeAt(bs, k)]

\* binascii.a2b_base64 in its default (non-strict) mode.  Characters outside
\* the alphabet are skipped.  With quad the number of data characters read
\* so far modulo 4 and pads the number of pad characters read since the last
\* data character, a pad character ends the input when quad >= 2 and
\* quad + pads >= 4; input that ends in the middle of a quad without
\* such a pad is an error (ok = FALSE, binascii.Error).
IsData(c) == c # PadChar /\ B64Value(c) >= 0

DataBefore(tok, i) == Cardinality({j \in 1..(i - 1) : IsData(tok[j])})

PadsUpTo(tok, i) ==
    Cardinality({j \in 1..i : tok[j] = PadChar /\ \A m \in j..i : ~IsData(tok[m])})

B64Decode(tok) ==
    LET ends == {i \in 1..Len(tok) :
                    /\ tok[i] = PadChar
                    /\ DataBefore(tok, i) % 4 >= 2
                    /\ (DataBefore(tok, i) % 4) + PadsUpTo(tok, i) >= 4}
        stop == IF ends = {} THEN Len(tok) + 1
                ELSE CHOOSE i \in ends : \A j \in ends : i <= j
        data == SelectSeq(SubSeq(tok, 1, stop - 1), IsData)
        d    == [i \in 1..Len(data) |-> B64Value(data[i])]
        n    == Len(d)
        nout == 3 * (n \div 4) + (IF n % 4 = 2 THEN 1 ELSE IF n % 4 = 3 THEN 2 ELSE 0)
        ByteAt(j) ==
            LET g == (j - 1) \div 3
                r == (j - 1) % 3
            IN IF r = 0 THEN d[4 * g + 1] * 4 + (d[4 * g + 2] \div 16)
               ELSE IF r = 1 THEN (d[4 * g + 2] % 16) * 16 + (d[4 * g + 3] \div 4)
               ELSE (d[4 * g + 3] % 4) * 64 + d[4 * g + 4]
    IN IF ends = {} /\ n % 4 # 0 THEN DecodeFailed
       ELSE [ok |-> TRUE, val |-> [j \in 1..nout |-> ByteAt(j)]]

\* Number of trailing pad characters of a token
RECURSIVE TrailingPads(_)
TrailingPads(tok) ==
    IF tok # <<>> /\ tok[Len(tok)] = PadChar
    THEN 1 + TrailingPads(SubSeq(tok, 1, Len(tok) - 1))
    ELSE 0

\* app.py _encode_url
_encode_url(url) == B64Encode(Utf8Encode(url))

\* app.py _decode_url: [ok, val]; ok = FALSE stands for the exception
\* raised by b64decode or by .decode("utf-8")

\* Variant: the token is decoded as it came, without re-padding
DecodePadding_None(token) == 4

DecodePadding(token) == 4 - (Len(token) % 4)

_decode_url(token) ==
    LET padding == DecodePadding(token)
        padded  == IF padding # 4 THEN token \o Repeat(PadChar, padding) ELSE token
        raw     == B64Decode(padded)
    IN IF raw.ok THEN Utf8Decode(raw.val) ELSE DecodeFailed

\* ------------------------------------------------------------------------
\*  core.py constants
\* ------------------------------------------------------------------------

BASE_URL == Cp("https://nanobanana-2.ai")

GEN_TIMEOUT == 210

ASPECT_MAP == {"1:1", "2:3", "3:2", "3:4", "4:3", "4:5", "5:4", "9:16", "16:9", "21:9"}

VALID_MODELS == {"nano-banana-pro", "nano-banana"}

\* Python's None; no text value is equal to it
None == <<-1>>

\* The truth value Python gives to a str-or-None
Truthy(x) == x # None /\ x # <<>>

\* ------------------------------------------------------------------------
\*  JSON values (the payload resp.json() returns)
\*    ty = "str":  s is the text          ty = "num": a number, bool or null
\*    ty = "dict": keys[i] maps to items[i], in the order of the document
\*    ty = "list": items in order
\* ------------------------------------------------------------------------

JStr(s) == [ty |-> "str", s |-> s, keys |-> <<>>, items |-> <<>>]

JNum == [ty |-> "num", s |-> <<>>, keys |-> <<>>, items |-> <<>>]

JDict(ks, vs) == [ty |-> "dict", s |-> <<>>, keys |-> ks, items |-> vs]

JList(vs) == [ty |-> "list", s |-> <<>>, keys |-> <<>>, items |-> vs]

\* ------------------------------------------------------------------------
\*  core.py _find_task_id
\* ------------------------------------------------------------------------

TaskIdKeys == {"taskId", "task_id", "id", "jobId", "job_id",
               "requestId", "generationId", "uuid", "token"}

MinTaskIdLen == 5

\* Variant: a value of exactly five characters is accepted
TaskIdEntryMatches_AtLeast(k, v) == k \in TaskIdKeys /\ v.ty = "str" /\ Len(v.s) >= MinTaskIdLen

\* The test of line 73 on one dict entry
TaskIdEntryMatches(k, v) == k \in TaskIdKeys /\ v.ty = "str" /\ Len(v.s) > MinTaskIdLen

RECURSIVE _find_task_id(_), TaskIdDictLoop(_, _), TaskIdListLoop(_, _)
_find_task_id(data) ==
    IF data.ty = "dict" THEN TaskIdDictLoop(data, 1)
    ELSE IF data.ty = "list" THEN TaskIdListLoop(data, 1)
    ELSE None

TaskIdDictLoop(d, i) ==
    IF i > Len(d.items) THEN None
    ELSE IF TaskIdEntryMatches(d.keys[i], d.items[i]) THEN d.items[i].s
    ELSE LET found == _find_task_id(d.items[i]) IN
         IF Truthy(found) THEN found ELSE TaskIdDictLoop(d, i + 1)

TaskIdListLoop(l, i) ==
    IF i > Len(l.items) THEN None
    ELSE LET found == _find_task_id(l.items[i]) IN
         IF Truthy(found) THEN found ELSE TaskIdListLoop(l, i + 1)

\* ------------------------------------------------------------------------
\*  core.py _find_image_url
\* ------------------------------------------------------------------------

EXTS == {Cp(".png"), Cp(".jpg"), Cp(".jpeg"), Cp(".webp")}

ImageHostMark == Cp("image.nanobanana")

SecurePrefix == Cp("https://")

\* The test of lines 91-94 on one text
LooksLikeImageUrl(v) ==
    \/ Contains(v, ImageHostMark)
    \/ (StartsWith(v, SecurePrefix) /\ \E e \in EXTS : EndsWith(v, e))

ImageEntryMatches(v) == v.ty = "str" /\ LooksLikeImageUrl(v.s)

RECURSIVE _find_image_url(_), ImageDictLoop(_, _), ImageListLoop(_, _)
_find_image_url(data) ==
    IF data.ty = "dict" THEN ImageDictLoop(data, 1)
    ELSE IF data.ty = "list" THEN ImageListLoop(data, 1)
    ELSE None

ImageDictLoop(d, i) ==
    IF i > Len(d.items) THEN None
    ELSE IF ImageEntryMatches(d.items[i]) THEN d.items[i].s
    ELSE LET found == _find_image_url(d.items[i]) IN
         IF Truthy(found) THEN found ELSE ImageDictLoop(d, i + 1)

ImageListLoop(l, i) ==
    IF i > Len(l.items) THEN None
    ELSE LET found == _find_image_url(l.items[i]) IN
         IF Truthy(found) THEN found ELSE ImageListLoop(l, i + 1)

\* ------------------------------------------------------------------------
\*  The scans of the completion poll over the captured events
\*  (an event is [t |-> "generate" | "query", d |-> JSON value])
\* ------------------------------------------------------------------------

\* core.py 345-350: the value of task_id after the block
RECURSIVE TaskScanLoop(_, _, _)
TaskScanLoop(evs, i, tid) ==
    IF i > Len(evs) THEN tid
    ELSE IF evs[i].t = "generate" THEN
        LET t == _find_task_id(evs[i].d) IN
        IF Truthy(t) THEN t ELSE TaskScanLoop(evs, i + 1, t)
    ELSE TaskScanLoop(evs, i + 1, tid)

TaskScan(evs, tid) == IF tid = None THEN TaskScanLoop(evs, 1, tid) ELSE tid

\* Variant: the scan keeps going and ends with the last match
RECURSIVE ImageScanLoop_LastMatch(_, _, _)
ImageScanLoop_LastMatch(evs, i, img) ==
    IF i > Len(evs) THEN img
    ELSE IF evs[i].t = "query" /\ Truthy(_find_image_url(evs[i].d))
         THEN ImageScanLoop_LastMatch(evs, i + 1, _find_image_url(evs[i].d))
         ELSE ImageScanLoop_LastMatch(evs, i + 1, img)

\* core.py 353-358: the value of image_url after the block
RECURSIVE ImageScanLoop(_, _, _)
ImageScanLoop(evs, i, img) ==
    IF i > Len(evs) THEN img
    ELSE IF evs[i].t = "query" THEN
        LET url == _find_image_url(evs[i].d) IN
        IF Truthy(url) THEN url ELSE ImageScanLoop(evs, i + 1, img)
    ELSE ImageScanLoop(evs, i + 1, img)

ImageScan(evs, img) == ImageScanLoop(evs, 1, img)

\* core.py 369: the test on the src attribute of the rendered <img>
MinDomSrcLen == 40

DomSrcAccepted(src) == StartsWith(src, Cp("http")) /\ Len(src) > MinDomSrcLen

\* ------------------------------------------------------------------------
\*  More text helpers: numbers in messages, parts of a locator
\* ------------------------------------------------------------------------

Digit(d) == <<48 + d>>

RECURSIVE IntToText(_)
IntToText(n) == IF n < 10 THEN Digit(n) ELSE IntToText(n \div 10) \o Digit(n % 10)

RECURSIVE JoinText(_, _)
JoinText(parts, sep) ==
    IF parts = <<>> THEN <<>>
    ELSE IF Len(parts) = 1 THEN Cp(parts[1])
    ELSE Cp(parts[1]) \o sep \o JoinText(Tail(parts), sep)

\* Index of the first '/' at or after position i, Len(s) + 1 if there is none
RECURSIVE SlashFrom(_, _)
SlashFrom(s, i) == IF i > Len(s) \/ s[i] = 47 THEN i ELSE SlashFrom(s, i + 1)

\* Host and path of an https locator
HostOf(url) == SubSeq(url, Len(SecurePrefix) + 1, SlashFrom(url, Len(SecurePrefix) + 1) - 1)

PathOf(url) == SubSeq(url, SlashFrom(url, Len(SecurePrefix) + 1), Len(url))

\* ------------------------------------------------------------------------
\*  Exceptions
\* ------------------------------------------------------------------------

NoExc == [cls |-> "none", msg |-> <<>>]

\* The classes an exception is an instance of.  playwright.sync_api.Error
\* derives from Exception and playwright's TimeoutError from that Error;
\* neither derives from the builtin TimeoutError or from RuntimeError.
Bases(cls) ==
    CASE cls = "ValueError"             -> {"ValueError", "Exception"}
      [] cls = "TimeoutError"           -> {"TimeoutError", "OSError", "Exception"}
      [] cls = "RuntimeError"           -> {"RuntimeError", "Exception"}
      [] cls = "PlaywrightError"        -> {"PlaywrightError", "Exception"}
      [] cls = "PlaywrightTimeoutError" -> {"PlaywrightTimeoutError", "PlaywrightError", "Exception"}
      [] OTHER                          -> {}

IsInstance(e, cls) == cls \in Bases(e.cls)

\* core.py 378-381
PollTimeoutError ==
    [cls |-> "TimeoutError",
     msg |-> Cp("Image generation timed out after ") \o IntToText(GEN_TIMEOUT)
             \o Cp(" seconds. Please try again.")]

\* core.py 134-137, 139-142
SortedAspectKeys == <<"16:9", "1:1", "21:9", "2:3", "3:2", "3:4", "4:3", "4:5", "5:4", "9:16">>

ModelKeys == <<"nano-banana-pro", "nano-banana">>

InvalidAspectError(aspect) ==
    [cls |-> "ValueError",
     msg |-> Cp("Invalid aspect ratio '") \o Cp(aspect) \o Cp("'. Valid options: ")
             \o JoinText(SortedAspectKeys, Cp(", "))]

InvalidModelError(model) ==
    [cls |-> "ValueError",
     msg |-> Cp("Invalid model '") \o Cp(model) \o Cp("'. Valid options: ")
             \o JoinText(ModelKeys, Cp(", "))]

\* What the browser driver raises when a navigation fails
GotoFailures(url) ==
    { [cls |-> "PlaywrightError",
       msg |-> Cp("Page.goto: net::ERR_CONNECTION_RESET at ") \o url],
      [cls |-> "PlaywrightTimeoutError",
       msg |-> Cp("Page.goto: Timeout exceeded. Call log: navigating to ") \o url] }

\* What the browser driver raises when an element step fails
ElementFailures ==
    { [cls |-> "PlaywrightTimeoutError", msg |-> Cp("Locator.wait_for: Timeout 15000ms exceeded.")],
      [cls |-> "PlaywrightError", msg |-> Cp("Target page, context or browser has been closed")] }

\* What launching the browser or opening its context raises
LaunchFailures ==
    { [cls |-> "PlaywrightError", msg |-> Cp("BrowserType.launch: Executable does not exist")] }

\* ------------------------------------------------------------------------
\*  Request parameters
\* ------------------------------------------------------------------------

\* str.strip() on an enumerated code
Blanks == {" ", "\t"}

RECURSIVE LStrip(_)
LStrip(s) ==
    IF Len(s) > 0 /\ SubSeq(s, 1, 1) \in Blanks THEN LStrip(SubSeq(s, 2, Len(s))) ELSE s

RECURSIVE RStrip(_)
RStrip(s) ==
    IF Len(s) > 0 /\ SubSeq(s, Len(s), Len(s)) \in Blanks
    THEN RStrip(SubSeq(s, 1, Len(s) - 1)) ELSE s

Strip(s) == RStrip(LStrip(s))

\* A prompt is  lead blanks, then n characters that start and end with a
\* non-blank one, then trail blanks.
Prompt(lead, n, trail) == [lead |-> lead, n |-> n, trail |-> trail]

PromptLen(p) == p.lead + p.n + p.trail

\* str.strip() on a prompt
StripPrompt(p) == Prompt(0, p.n, 0)

Min(a, b) == IF a < b THEN a ELSE b

\* prompt[:k]
TruncatePrompt(p, k) ==
    LET l == Min(p.lead, k)
        m == Min(p.n, k - l)
    IN Prompt(l, m, Min(p.trail, k - l - m))

\* app.py 231
MaxPromptLen == 2000

\* core.py 309
CorePromptCap == 2000

\* A query parameter: given = FALSE when the request does not carry it
Arg(v) == [given |-> TRUE, v |-> v]

NoPromptArg == [given |-> FALSE, v |-> Prompt(0, 0, 0)]

NoArg == [given |-> FALSE, v |-> ""]

\* request.args.get(name, default)
ArgsGet(a, default) == IF a.given THEN a.v ELSE default

Request(p, a, m) == [prompt |-> p, aspect |-> a, model |-> m]

Requests ==
    { Request(Arg(Prompt(0, MaxPromptLen, 1)), Arg(" 16:9 "), NoArg),
      Request(NoPromptArg, Arg("1:1"), Arg("nano-banana")),
      Request(Arg(Prompt(2, 0, 0)), NoArg, NoArg),
      Request(Arg(Prompt(0, MaxPromptLen + 1, 0)), Arg("1:1"), NoArg),
      Request(Arg(Prompt(0, 5, 0)), Arg("5:5"), NoArg),
      Request(Arg(Prompt(0, 5, 0)), Arg(""), Arg("nano-banana")),
      Request(Arg(Prompt(0, 5, 0)), Arg("9:16"), Arg("dall-e")),
      Request(Arg(Prompt(0, 5, 0)), NoArg, Arg("Nano-Banana")) }

\* ------------------------------------------------------------------------
\*  Gateway responses
\* ------------------------------------------------------------------------

API_BASE == Cp("https://nanobananapro-api.up.railway.app")

NoPrompt == Prompt(0, 0, 0)

\* app.py _err
_err(msg, hint, code) ==
    [status |-> code, success |-> FALSE, error |-> msg, hint |-> hint,
     image_url |-> None, task_id |-> None, model |-> "", aspect |-> "", prompt |-> NoPrompt,
     body |-> "json", ctype |-> Cp("application/json")]

NoResponse ==
    [status |-> 0, success |-> FALSE, error |-> None, hint |-> None,
     image_url |-> None, task_id |-> None, model |-> "", aspect |-> "", prompt |-> NoPrompt,
     body |-> "none", ctype |-> None]

\* The texts a response carries
ResponseTexts(r) == {r.error, r.hint, r.image_url, r.task_id} \ {None}

\* ------------------------------------------------------------------------
\*  The target site as the automated browser sees it
\* ------------------------------------------------------------------------

UrlA == Cp("https://image.nanobanana-2.ai/ai-generated/0001.png")

UrlB == Cp("https://cdn.example.com/out/0002.webp")

UrlC == Cp("https://image.nanobanana-2.ai/ai-generated/0003.jpeg")

DomSrcGood == Cp("https://image.nanobanana-2.ai/ai-generated/dom-0004.png")

DomSrcInsecure == Cp("http://image.nanobanana-2.ai/ai-generated/dom-0005.png")

DomSrcShort == Cp("https://image.nanobanana-2.ai/x.png")

DomSrcData == Cp("data:image/png;base64,iVBORw0KGgoAAAANSUhEUgAAAAEAAAABCAYAAAAfFcSJ")

PGen ==
    JDict(<<"code", "data">>,
          <<JNum, JDict(<<"id", "taskId">>, <<JStr(Cp("12345")), JStr(Cp("task-000001"))>>)>>)

PQueryDoneA ==
    JDict(<<"status", "data">>, <<JStr(Cp("done")), JDict(<<"url">>, <<JStr(UrlA)>>)>>)

PQueryDoneC == JDict(<<"result">>, <<JList(<<JDict(<<"image">>, <<JStr(UrlC)>>)>>)>>)

\* The locator is an element of a list
PQueryListB == JDict(<<"status", "images">>, <<JStr(Cp("done")), JList(<<JStr(UrlB)>>)>>)

NotJson == [ty |-> "notjson", s |-> <<>>, keys |-> <<>>, items |-> <<>>]

SiteResponse(path, status, body) == [path |-> path, status |-> status, body |-> body]

\* The responses the page can receive while the session is open
SiteResponses ==
    { SiteResponse("/api/ai/generate", 200, PGen),
      SiteResponse("/api/ai/generate", 201, PGen),
      SiteResponse("/api/ai/generate", 500, PGen),
      SiteResponse("/api/ai/query", 200, PQueryDoneA),
      SiteResponse("/api/ai/query", 200, PQueryDoneC),
      SiteResponse("/api/ai/query", 200, PQueryListB),
      SiteResponse("/api/ai/query", 201, PQueryDoneA),
      SiteResponse("/api/ai/query", 200, NotJson),
      SiteResponse("/api/user/info", 200, PQueryDoneA) }

\* The outcomes of reading the src of the rendered <img> (core.py 365-368):
\* the call raises (no such element within 500 ms), or returns the
\* attribute, None when the element has no src
DomRaises == [raises |-> TRUE, src |-> None]

DomReturns(src) == [raises |-> FALSE, src |-> src]

DomOutcomes ==
    { DomRaises, DomReturns(None), DomReturns(DomSrcGood), DomReturns(DomSrcShort),
      DomReturns(DomSrcData) }

\* The longest captured event sequence explored
MaxEvents == 2

\* The most password fields the registration page shows
MaxPwdFields == 2

\* ------------------------------------------------------------------------
\*  State
\* ------------------------------------------------------------------------

VARIABLES
    pc,           \* position of the request being served
    req,          \* the query parameters of the /generate request
    args,         \* generate_image's prompt, aspect, model
    coreInvoked,  \* core.generate was called for this request
    cprompt,      \* core.generate's prompt
    browser,      \* "none", "open" or "closed"
    tryEntered,   \* the run reached the try block (core.py 183)
    closeCalled,  \* browser.close() was called (core.py 394)
    events,       \* core.generate's events
    clock,        \* time.time(), in whole seconds
    start,        \* core.generate's start
    image_url,    \* core.generate's image_url
    task_id,      \* core.generate's task_id
    exc,          \* the exception in flight out of core.generate
    ret,          \* the value core.generate returned
    resp,         \* the HTTP response sent
    rtoken,       \* the token of the /img request
    rfetch,       \* the locator the Relay fetched, None if it fetched nothing
    call,         \* the last form or element call of steps 2-8 sent to the driver
    loop          \* the counter of the loop the run is in, 0 outside a loop

vars == <<pc, req, args, coreInvoked, cprompt, browser, tryEntered, closeCalled, events,
           clock, start, image_url, task_id, exc, ret, resp, rtoken, rfetch, call, loop>>

NoRequest == Request(NoPromptArg, NoArg, NoArg)

NoArgs == [prompt |-> NoPrompt, aspect |-> "", model |-> ""]

\* A call of the driver on a form field or an element: the operation, the
\* selector, the text passed (a prompt, or none) and whether the call
\* returned (ok) or raised
DriverCall(op, target, arg, ok) == [op |-> op, target |-> target, arg |-> arg, ok |-> ok]

NoCall == DriverCall("none", "", NoPrompt, FALSE)

NoResult ==
    [success |-> FALSE, image_url |-> None, task_id |-> None,
     model |-> "", aspect |-> "", prompt |-> NoPrompt]

\* The state before a request is served, at position p, with the captured
\* events evs and the locator img
InitWith(p, evs, img) ==
    /\ pc = p
    /\ req = NoRequest
    /\ args = NoArgs
    /\ coreInvoked = FALSE
    /\ cprompt = NoPrompt
    /\ browser = "none"
    /\ tryEntered = FALSE
    /\ closeCalled = FALSE
    /\ events = evs
    /\ clock = 0
    /\ start = 0
    /\ image_url = img
    /\ task_id = None
    /\ exc = NoExc
    /\ ret = NoResult
    /\ resp = NoResponse
    /\ rtoken = None
    /\ rfetch = None
    /\ call = NoCall
    /\ loop = 0

Init == InitWith("idle", <<>>, None)

\* ------------------------------------------------------------------------
\*  Gateway: GET /generate, up to the call of core.generate (app.py 218-257)
\* ------------------------------------------------------------------------

\* The four checks of app.py 225-249, on the values after lines 220-222
PromptMissing(a) == PromptLen(a.prompt) = 0

\* Variant: the bound is off by one
PromptTooLong_OffByOne(a) == PromptLen(a.prompt) > MaxPromptLen + 1

PromptTooLong(a) == PromptLen(a.prompt) > MaxPromptLen

AspectInvalid(a) == a.aspect \notin ASPECT_MAP

ModelInvalid(a) == a.model \notin VALID_MODELS

\* app.py 220-222
ReadArgs(r) ==
    [prompt |-> StripPrompt(ArgsGet(r.prompt, NoPrompt)),
     aspect |-> Strip(ArgsGet(r.aspect, "1:1")),
     model  |-> Strip(ArgsGet(r.model, "nano-banana-pro"))]

\* The 400 answer of app.py 225-249, NoResponse when all four checks pass
ValidationResponse(a) ==
    IF PromptMissing(a) THEN
        _err(Cp("The 'prompt' parameter is required."),
             Cp("Add ?prompt=your image description"), 400)
    ELSE IF PromptTooLong(a) THEN
        _err(Cp("Prompt exceeds maximum length of 2000 characters."),
             Cp("Current length: ") \o IntToText(PromptLen(a.prompt)) \o Cp(" characters."), 400)
    ELSE IF AspectInvalid(a) THEN
        _err(Cp("Invalid aspect ratio: '") \o Cp(a.aspect) \o Cp("'."),
             Cp("Valid options: ") \o JoinText(SortedAspectKeys, Cp(", ")), 400)
    ELSE IF ModelInvalid(a) THEN
        _err(Cp("Invalid model: '") \o Cp(a.model) \o Cp("'."),
             Cp("Valid options: ") \o JoinText(ModelKeys, Cp(", ")), 400)
    ELSE NoResponse

generate_image ==
    /\ pc = "idle"
    /\ \E r \in Requests :
         LET a == ReadArgs(r)
             v == ValidationResponse(a)
         IN /\ req' = r
            /\ args' = a
            /\ IF v # NoResponse
               THEN /\ resp' = v
                    /\ pc' = "gw_done"
                    /\ UNCHANGED <<coreInvoked, cprompt>>
               ELSE /\ resp' = NoResponse
                    /\ coreInvoked' = TRUE
                    /\ cprompt' = a.prompt
                    /\ pc' = "core_validate"
    /\ UNCHANGED <<browser, tryEntered, closeCalled, events, clock, start, image_url,
                   task_id, exc, ret, rtoken, rfetch, call, loop>>

\* ------------------------------------------------------------------------
\*  Core: core.generate
\* ------------------------------------------------------------------------

\* core.py 133-146
CoreValidate ==
    /\ pc = "core_validate"
    /\ IF args.aspect \notin ASPECT_MAP
       THEN exc' = InvalidAspectError(args.aspect) /\ pc' = "gw_return"
       ELSE IF args.model \notin VALID_MODELS
       THEN exc' = InvalidModelError(args.model) /\ pc' = "gw_return"
       ELSE exc' = NoExc /\ pc' = "launch"
    /\ events' = <<>>
    /\ UNCHANGED <<req, args, coreInvoked, cprompt, browser, tryEntered, closeCalled, clock,
                   start, image_url, task_id, ret, resp, rtoken, rfetch, call, loop>>

\* core.py 148-158: the driver starts and launches Chromium
Launch ==
    /\ pc = "launch"
    /\ \/ /\ browser' = "open"
          /\ pc' = "context"
          /\ UNCHANGED exc
       \/ /\ \E e \in LaunchFailures : exc' = e
          /\ pc' = "with_exit"
          /\ UNCHANGED browser
    /\ UNCHANGED <<req, args, coreInvoked, cprompt, tryEntered, closeCalled, events, clock,
                   start, image_url, task_id, ret, resp, rtoken, rfetch, call, loop>>

\* core.py 159-183: context, page and listeners; then the try block is entered
OpenContext ==
    /\ pc = "context"
    /\ \/ /\ tryEntered' = TRUE
          /\ pc' = "step1"
          /\ UNCHANGED exc
       \/ /\ \E e \in ElementFailures : exc' = e
          /\ pc' = "with_exit"
          /\ UNCHANGED tryEntered
    /\ UNCHANGED <<req, args, coreInvoked, cprompt, browser, closeCalled, events, clock,
                   start, image_url, task_id, ret, resp, rtoken, rfetch, call, loop>>

\* A step of the try block that either completes or raises one of failures
TryStep(from, to, failures) ==
    /\ pc = from
    /\ \/ pc' = to /\ UNCHANGED exc
       \/ \E e \in failures : exc' = e /\ pc' = "finally"

\* core.py 185-186
Step1Home ==
    /\ TryStep("step1", "step2", GotoFailures(BASE_URL))
    /\ UNCHANGED <<req, args, coreInvoked, cprompt, browser, tryEntered, closeCalled, events,
                   clock, start, image_url, task_id, ret, resp, rtoken, rfetch, call, loop>>

\* core.py 189-191: the navigation to the registration page
Step2Register ==
    /\ TryStep("step2", "step2_name", GotoFailures(BASE_URL \o Cp("/sign-up")))
    /\ UNCHANGED <<req, args, coreInvoked, cprompt, browser, tryEntered, closeCalled, events,
                   clock, start, image_url, task_id, ret, resp, rtoken, rfetch, call, loop>>

\* core.py 193-197, 208, 228-234: the selector candidates of each element
NameSelectors ==
    <<"input[name='name']", "input[placeholder*='name' i]", "input[placeholder*='Full' i]">>

EmailSelectors == <<"input[type='email']", "input[name='email']">>

SubmitSelectors ==
    << "button[type='submit']", "button:has-text('Sign up')", "button:has-text('Create account')",
       "button:has-text('Register')", "button:has-text('Get started')" >>

\* The first candidate at which hit holds, 0 when there is none
FirstHit(hit) ==
    IF \E i \in DOMAIN hit : hit[i]
    THEN CHOOSE i \in DOMAIN hit : hit[i] /\ \A j \in 1..(i - 1) : ~hit[j]
    ELSE 0

\* core.py 198-204: the candidates are tried in order; one whose wait_for
\* and fill return ends the loop, one that throws is passed over
FillFirst(sels, works) ==
    IF FirstHit(works) = 0
    THEN DriverCall("fill", "", NoPrompt, FALSE)
    ELSE DriverCall("fill", sels[FirstHit(works)], NoPrompt, TRUE)

\* core.py 193-206
Step2Name ==
    /\ pc = "step2_name"
    /\ \E works \in [1..Len(NameSelectors) -> BOOLEAN] : call' = FillFirst(NameSelectors, works)
    /\ pc' = "step2_email"
    /\ UNCHANGED <<req, args, coreInvoked, cprompt, browser, tryEntered, closeCalled, events,
                   clock, start, image_url, task_id, ret, resp, rtoken, rfetch, exc, loop>>

\* core.py 208-217
Step2Email ==
    /\ pc = "step2_email"
    /\ \E works \in [1..Len(EmailSelectors) -> BOOLEAN] : call' = FillFirst(EmailSelectors, works)
    /\ pc' = "step2_count"
    /\ UNCHANGED <<req, args, coreInvoked, cprompt, browser, tryEntered, closeCalled, events,
                   clock, start, image_url, task_id, ret, resp, rtoken, rfetch, exc, loop>>

\* What pwd_fields.count() raises: the call evaluates in the page, and the
\* page may navigate or close under it
CountFailures ==
    { [cls |-> "PlaywrightError",
       msg |-> Cp("Locator.count: Execution context was destroyed, most likely because of a navigation")] }

\* core.py 219-220: the count of the password fields stands in no try block
Step2Count ==
    /\ pc = "step2_count"
    /\ \/ /\ \E n \in 0..MaxPwdFields : loop' = n
          /\ pc' = "step2_pwd"
          /\ UNCHANGED exc
       \/ /\ \E e \in CountFailures : exc' = e
          /\ pc' = "finally"
          /\ UNCHANGED loop
    /\ UNCHANGED <<req, args, coreInvoked, cprompt, browser, tryEntered, closeCalled, events,
                   clock, start, image_url, task_id, ret, resp, rtoken, rfetch, call>>

\* core.py 220-226: every field is filled, a fill that throws is passed over
Step2Passwords ==
    /\ pc = "step2_pwd"
    /\ \E works \in [1..loop -> BOOLEAN] :
         call' = DriverCall("fill", "input[type='password']", NoPrompt, \E i \in 1..loop : works[i])
    /\ loop' = 0
    /\ pc' = "step2_submit"
    /\ UNCHANGED <<req, args, coreInvoked, cprompt, browser, tryEntered, closeCalled, events,
                   clock, start, image_url, task_id, ret, resp, rtoken, rfetch, exc>>

\* core.py 235-241: a candidate button is not visible, or is_visible or
\* click throws, or it is clicked and the loop ends
SubmitOutcomes == {"hidden", "throws", "clicked"}

ClickFirst(sels, outcome) ==
    LET i == FirstHit([j \in DOMAIN outcome |-> outcome[j] = "clicked"])
    IN IF i = 0
       THEN DriverCall("click", "", NoPrompt, FALSE)
       ELSE DriverCall("click", sels[i], NoPrompt, TRUE)

\* core.py 228-243
Step2Submit ==
    /\ pc = "step2_submit"
    /\ \E outcome \in [1..Len(SubmitSelectors) -> SubmitOutcomes] :
         call' = ClickFirst(SubmitSelectors, outcome)
    /\ pc' = "step3"
    /\ UNCHANGED <<req, args, coreInvoked, cprompt, browser, tryEntered, closeCalled, events,
                   clock, start, image_url, task_id, ret, resp, rtoken, rfetch, exc, loop>>

\* core.py 246-251
Step3Generator ==
    /\ TryStep("step3", "step4", GotoFailures(BASE_URL \o Cp("/ai-image-generator")))
    /\ UNCHANGED <<req, args, coreInvoked, cprompt, browser, tryEntered, closeCalled, events,
                   clock, start, image_url, task_id, ret, resp, rtoken, rfetch, call, loop>>

\* core.py 254-257
Step4Tab ==
    /\ TryStep("step4", "step5", ElementFailures)
    /\ UNCHANGED <<req, args, coreInvoked, cprompt, browser, tryEntered, closeCalled, events,
                   clock, start, image_url, task_id, ret, resp, rtoken, rfetch, call, loop>>

\* core.py 260-268
Step5Model ==
    /\ TryStep("step5", "step6", ElementFailures)
    /\ UNCHANGED <<req, args, coreInvoked, cprompt, browser, tryEntered, closeCalled, events,
                   clock, start, image_url, task_id, ret, resp, rtoken, rfetch, call, loop>>

\* core.py 271-286: the aspect control is opened; a failure here raises
Step6Aspect ==
    /\ TryStep("step6", "step6_a", ElementFailures)
    /\ call' = DriverCall("click", "button:has-text(ratio)", NoPrompt, pc' = "step6_a")
    /\ UNCHANGED <<req, args, coreInvoked, cprompt, browser, tryEntered, closeCalled, events,
                   clock, start, image_url, task_id, ret, resp, rtoken, rfetch, loop>>

\* core.py 289-304: the positions of the three selection strategies, in the
\* order of the nested try blocks, and the element each one clicks
StrategyPcs == <<"step6_a", "step6_b", "step6_c">>

StrategyTargets ==
    << "get_by_role(option, name=ratio, exact)",
       "li, [role=menuitem], [role=option] has-text(ratio) .first",
       "text=ratio .last" >>

\* Variant: a strategy that throws is not caught
StrategyThrew_Uncaught(i, e) == exc' = e /\ pc' = "finally"

\* core.py 294, 303: the except clauses hand over to the next strategy; the
\* last strategy stands in no try block of its own
StrategyThrew(i, e) ==
    IF i < Len(StrategyPcs)
    THEN pc' = StrategyPcs[i + 1] /\ UNCHANGED exc
    ELSE exc' = e /\ pc' = "finally"

\* Strategy i clicks its element and the step goes on to line 306, or one
\* of its calls throws
AspectStrategy(i) ==
    /\ pc = StrategyPcs[i]
    /\ \/ /\ call' = DriverCall("select", StrategyTargets[i], NoPrompt, TRUE)
          /\ pc' = "step7"
          /\ UNCHANGED exc
       \/ \E e \in ElementFailures :
            /\ call' = DriverCall("select", StrategyTargets[i], NoPrompt, FALSE)
            /\ StrategyThrew(i, e)
    /\ UNCHANGED <<req, args, coreInvoked, cprompt, browser, tryEntered, closeCalled, events,
                   clock, start, image_url, task_id, ret, resp, rtoken, rfetch, loop>>

\* core.py 289-293
Step6RoleOption == AspectStrategy(1)

\* core.py 295-302
Step6ListItem == AspectStrategy(2)

\* core.py 304
Step6LastText == AspectStrategy(3)

\* core.py 311
MaxInjectAttempts == 3

\* core.py 309-310: the prompt is cut and the input is waited for
Step7Prompt ==
    /\ TryStep("step7", "step7_try", ElementFailures)
    /\ cprompt' = TruncatePrompt(cprompt, CorePromptCap)
    /\ call' = DriverCall("wait", "#image-prompt", NoPrompt, pc' = "step7_try")
    /\ loop' = IF pc' = "step7_try" THEN 1 ELSE 0
    /\ UNCHANGED <<req, args, coreInvoked, browser, tryEntered, closeCalled, events,
                   clock, start, image_url, task_id, ret, resp, rtoken, rfetch>>

\* core.py 312-321, 324: page.evaluate sets the value of the input and the
\* loop is left, or it throws
Step7Inject ==
    /\ pc = "step7_try"
    /\ \/ /\ call' = DriverCall("inject", "#image-prompt", cprompt, TRUE)
          /\ pc' = "step8"
          /\ loop' = 0
       \/ /\ call' = DriverCall("inject", "#image-prompt", cprompt, FALSE)
          /\ pc' = "step7_backoff"
          /\ UNCHANGED loop
    /\ UNCHANGED <<req, args, coreInvoked, cprompt, browser, tryEntered, closeCalled, events,
                   clock, start, image_url, task_id, ret, resp, rtoken, rfetch, exc>>

\* Variant: the loop goes round until an attempt succeeds
AfterBackoff_Unbounded(n) == [pc |-> "step7_try", loop |-> n + 1]

\* core.py 311: the next round of range(3), or the end of the loop
AfterBackoff(n) ==
    IF n < MaxInjectAttempts
    THEN [pc |-> "step7_try", loop |-> n + 1]
    ELSE [pc |-> "step8", loop |-> 0]

\* core.py 322-323: the wait of one second after an attempt that threw
Step7Backoff ==
    /\ pc = "step7_backoff"
    /\ pc' = AfterBackoff(loop).pc
    /\ loop' = AfterBackoff(loop).loop
    /\ UNCHANGED <<req, args, coreInvoked, cprompt, browser, tryEntered, closeCalled, events,
                   clock, start, image_url, task_id, ret, resp, rtoken, rfetch, exc, call>>

\* core.py 327-332
Step8Submit ==
    /\ TryStep("step8", "poll_init", ElementFailures)
    /\ call' = DriverCall("click", "button:has-text('Generate Images')", NoPrompt, pc' = "poll_init")
    /\ UNCHANGED <<req, args, coreInvoked, cprompt, browser, tryEntered, closeCalled, events,
                   clock, start, image_url, task_id, ret, resp, rtoken, rfetch, loop>>

\* core.py 172-179: events after the listener has seen the response r
Captured(evs, r) ==
    IF r.path = "/api/ai/generate" /\ r.status \in {200, 201} THEN
        IF r.body = NotJson THEN evs ELSE Append(evs, [t |-> "generate", d |-> r.body])
    ELSE IF r.path = "/api/ai/query" /\ r.status = 200 THEN
        IF r.body = NotJson THEN evs ELSE Append(evs, [t |-> "query", d |-> r.body])
    ELSE evs

\* The positions whose step calls the browser driver.  The synchronous
\* driver dispatches listeners only inside its own calls, so a response is
\* captured during one of these steps and never during time.sleep.
DriverCallPcs ==
    {"step1", "step2", "step2_name", "step2_email", "step2_count", "step2_pwd", "step2_submit",
     "step3", "step4", "step5", "step6", "step6_a", "step6_b", "step6_c",
     "step7", "step7_try", "step7_backoff", "step8", "poll_dom"}

_on_response ==
    /\ pc \in DriverCallPcs
    /\ browser = "open"
    /\ Len(events) < MaxEvents
    /\ \E r \in SiteResponses : events' = Captured(events, r)
    /\ UNCHANGED <<pc, req, args, coreInvoked, cprompt, browser, tryEntered, closeCalled,
                   clock, start, image_url, task_id, exc, ret, resp, rtoken, rfetch, call, loop>>

\* core.py 335-337
PollInit ==
    /\ pc = "poll_init"
    /\ start' = clock
    /\ image_url' = None
    /\ task_id' = None
    /\ pc' = "poll_check"
    /\ UNCHANGED <<req, args, coreInvoked, cprompt, browser, tryEntered, closeCalled, events,
                   clock, exc, ret, resp, rtoken, rfetch, call, loop>>

\* core.py 340: elapsed
Elapsed == clock - start

BudgetSpent(elapsed) == elapsed >= GEN_TIMEOUT

\* core.py 339-342
PollCheck ==
    /\ pc = "poll_check"
    /\ pc' = IF BudgetSpent(Elapsed) THEN "poll_exit" ELSE "poll_task"
    /\ UNCHANGED <<req, args, coreInvoked, cprompt, browser, tryEntered, closeCalled, events,
                   clock, start, image_url, task_id, exc, ret, resp, rtoken, rfetch, call, loop>>

\* core.py 344-350
PollTaskScan ==
    /\ pc = "poll_task"
    /\ task_id' = TaskScan(events, task_id)
    /\ pc' = "poll_image"
    /\ UNCHANGED <<req, args, coreInvoked, cprompt, browser, tryEntered, closeCalled, events,
                   clock, start, image_url, exc, ret, resp, rtoken, rfetch, call, loop>>

\* Variant: no break after the scan, the DOM is consulted all the same
AfterImageScan_NoBreak(img) == "poll_dom"

\* The position after the scan of the query events (core.py 360-361)
AfterImageScan(img) == IF Truthy(img) THEN "poll_exit" ELSE "poll_dom"

\* core.py 352-361
PollImageScan ==
    /\ pc = "poll_image"
    /\ image_url' = ImageScan(events, image_url)
    /\ pc' = AfterImageScan(image_url')
    /\ UNCHANGED <<req, args, coreInvoked, cprompt, browser, tryEntered, closeCalled, events,
                   clock, start, task_id, exc, ret, resp, rtoken, rfetch, call, loop>>

\* Variant: the break stands outside the test of the src
AfterDom_AlwaysBreak(accepted) == "poll_exit"

\* The position after the DOM fallback (core.py 369-375)
AfterDom(accepted) == IF accepted THEN "poll_exit" ELSE "poll_sleep"

\* core.py 363-373
PollDom ==
    /\ pc = "poll_dom"
    /\ \E o \in DomOutcomes :
         LET src == IF o.src = None THEN <<>> ELSE o.src
             accepted == ~o.raises /\ DomSrcAccepted(src)
         IN /\ image_url' = IF accepted THEN src ELSE image_url
            /\ pc' = AfterDom(accepted)
    /\ UNCHANGED <<req, args, coreInvoked, cprompt, browser, tryEntered, closeCalled, events,
                   clock, start, task_id, exc, ret, resp, rtoken, rfetch, call, loop>>

\* core.py 375
PollInterval == 2

\* core.py 375: time.sleep(2).  The clock counts whole seconds, as
\* int(time.time() - start) of line 340 does
PollSleep ==
    /\ pc = "poll_sleep"
    /\ clock' = clock + PollInterval
    /\ pc' = "poll_check"
    /\ UNCHANGED <<req, args, coreInvoked, cprompt, browser, tryEntered, closeCalled, events,
                   start, image_url, task_id, exc, ret, resp, rtoken, rfetch, call, loop>>

UnknownTaskId == Cp("unknown")

\* core.py 383-390
CoreResult(img, tid, model, aspect, prompt) ==
    [success |-> TRUE, image_url |-> img,
     task_id |-> IF Truthy(tid) THEN tid ELSE UnknownTaskId,
     model |-> model, aspect |-> aspect, prompt |-> prompt]

\* core.py 377-390
PollExit ==
    /\ pc = "poll_exit"
    /\ IF ~Truthy(image_url)
       THEN exc' = PollTimeoutError /\ UNCHANGED ret
       ELSE ret' = CoreResult(image_url, task_id, args.model, args.aspect, cprompt)
            /\ UNCHANGED exc
    /\ pc' = "finally"
    /\ UNCHANGED <<req, args, coreInvoked, cprompt, browser, tryEntered, closeCalled, events,
                   clock, start, image_url, task_id, resp, rtoken, rfetch, call, loop>>

\* What browser.close() can do: close the browser, or raise and leave the
\* browser in either state
CloseOutcomes ==
    { [raises |-> FALSE, browser |-> "closed", e |-> NoExc] }
    \cup { [raises |-> TRUE, browser |-> b, e |-> e] :
             b \in {"open", "closed"}, e \in ElementFailures }

\* Variant: the close is not guarded, what it raises replaces the outcome
ExcAfterClose_Unguarded(pending, o) == IF o.raises THEN o.e ELSE pending

\* core.py 393-396: the exception in flight after the guarded close, given
\* the one in flight before it
ExcAfterClose(pending, o) == pending

\* core.py 392-396
Finally ==
    /\ pc = "finally"
    /\ closeCalled' = TRUE
    /\ \E o \in CloseOutcomes :
         /\ browser' = o.browser
         /\ exc' = ExcAfterClose(exc, o)
    /\ pc' = "with_exit"
    /\ UNCHANGED <<req, args, coreInvoked, cprompt, tryEntered, events, clock, start,
                   image_url, task_id, ret, resp, rtoken, rfetch, call, loop>>

\* core.py 148: leaving the with block stops the driver, which ends every
\* browser it launched
WithExit ==
    /\ pc = "with_exit"
    /\ browser' = IF browser = "open" THEN "closed" ELSE browser
    /\ pc' = "gw_return"
    /\ UNCHANGED <<req, args, coreInvoked, cprompt, tryEntered, closeCalled, events, clock,
                   start, image_url, task_id, exc, ret, resp, rtoken, rfetch, call, loop>>

\* ------------------------------------------------------------------------
\*  Gateway: GET /generate, after core.generate (app.py 259-291)
\* ------------------------------------------------------------------------

\* app.py 259-271
SuccessResponse(result, a) ==
    [status |-> 200, success |-> TRUE, error |-> None, hint |-> None,
     image_url |-> API_BASE \o Cp("/img/") \o _encode_url(result.image_url),
     task_id |-> IF result.task_id = None THEN UnknownTaskId ELSE result.task_id,
     model |-> a.model, aspect |-> a.aspect, prompt |-> a.prompt,
     body |-> "json", ctype |-> Cp("application/json")]

\* app.py 273-291: the except clauses, in order
ErrorResponse(e) ==
    IF IsInstance(e, "ValueError") THEN _err(e.msg, None, 400)
    ELSE IF IsInstance(e, "TimeoutError") THEN
        _err(e.msg, Cp("The image took too long to generate. Please try again."), 504)
    ELSE IF IsInstance(e, "RuntimeError") THEN _err(e.msg, None, 502)
    ELSE _err(Cp("Unexpected server error: ") \o e.msg,
              Cp("Please try again or contact @Ok_Sidra."), 500)

generate_image_return ==
    /\ pc = "gw_return"
    /\ resp' = IF exc = NoExc THEN SuccessResponse(ret, args) ELSE ErrorResponse(exc)
    /\ pc' = "gw_done"
    /\ UNCHANGED <<req, args, coreInvoked, cprompt, browser, tryEntered, closeCalled, events,
                   clock, start, image_url, task_id, exc, ret, rtoken, rfetch, call, loop>>

\* ------------------------------------------------------------------------
\*  Relay: GET /img/<token> (app.py 298-359)
\* ------------------------------------------------------------------------

\* What the outbound fetch can do
Upstream(kind, status, ctype) == [kind |-> kind, status |-> status, ctype |-> ctype]

UpstreamOutcomes ==
    { Upstream("response", 200, Cp("image/webp")),
      Upstream("response", 200, None),
      Upstream("response", 403, Cp("text/html")),
      Upstream("timeout", 0, None),
      Upstream("connection_error", 0, None) }

\* str() of the ConnectionError that requests raises
ConnectionErrorText(url) ==
    Cp("HTTPSConnectionPool(host='") \o HostOf(url)
    \o Cp("', port=443): Max retries exceeded with url: ") \o PathOf(url)

RelayJson(code, msg, hint) ==
    [status |-> code, success |-> FALSE, error |-> msg, hint |-> hint,
     image_url |-> None, task_id |-> None, model |-> "", aspect |-> "", prompt |-> NoPrompt,
     body |-> "json", ctype |-> Cp("application/json")]

\* Variant: any http scheme is let through
SchemeAllowed_AnyHttp(url) == StartsWith(url, Cp("http"))

\* app.py 315: the check on the decoded locator
SchemeAllowed(url) == StartsWith(url, SecurePrefix)

\* app.py 318-359: the answer once the fetch of real_url has done u
FetchResponse(real_url, u) ==
    IF u.kind = "timeout" THEN RelayJson(504, Cp("Image fetch timed out."), None)
    ELSE IF u.kind = "connection_error" THEN
        RelayJson(500, Cp("Proxy error: ") \o ConnectionErrorText(real_url), None)
    ELSE IF u.status # 200 THEN
        RelayJson(404, Cp("Image could not be retrieved. It may have expired."), None)
    ELSE [status |-> 200, success |-> TRUE, error |-> None, hint |-> None,
          image_url |-> None, task_id |-> None, model |-> "", aspect |-> "",
          prompt |-> NoPrompt, body |-> "image",
          ctype |-> IF u.ctype = None THEN Cp("image/png") ELSE u.ctype]

\* The tokens clients send
RelayTokens ==
    { _encode_url(UrlA),
      _encode_url(UrlC),
      SubSeq(_encode_url(UrlC), 1, Len(_encode_url(UrlC)) - TrailingPads(_encode_url(UrlC))),
      _encode_url(DomSrcInsecure),
      _encode_url(Cp("HTTPS://image.nanobanana-2.ai/ai-generated/0001.png")),
      _encode_url(Cp("javascript:alert(1)")),
      Cp("A"),
      Cp("_w"),
      Cp("aHR0cHM6Ly9h=") }

proxy_image ==
    /\ pc = "idle"
    /\ \E token \in RelayTokens, u \in UpstreamOutcomes :
         LET decoded == _decode_url(token) IN
         /\ rtoken' = token
         /\ IF ~decoded.ok THEN
                /\ resp' = RelayJson(400, Cp("Invalid image token."),
                                     Cp("Use the full image_url returned by /generate."))
                /\ rfetch' = None
            ELSE IF ~SchemeAllowed(decoded.val) THEN
                /\ resp' = RelayJson(400, Cp("Invalid image URL."), None)
                /\ rfetch' = None
            ELSE
                /\ resp' = FetchResponse(decoded.val, u)
                /\ rfetch' = decoded.val
    /\ pc' = "relay_done"
    /\ UNCHANGED <<req, args, coreInvoked, cprompt, browser, tryEntered, closeCalled, events,
                   clock, start, image_url, task_id, exc, ret, call, loop>>

\* ------------------------------------------------------------------------
\*  The service
\* ------------------------------------------------------------------------

Next ==
    \/ generate_image
    \/ CoreValidate
    \/ Launch
    \/ OpenContext
    \/ Step1Home
    \/ Step2Register
    \/ Step2Name
    \/ Step2Email
    \/ Step2Count
    \/ Step2Passwords
    \/ Step2Submit
    \/ Step3Generator
    \/ Step4Tab
    \/ Step5Model
    \/ Step6Aspect
    \/ Step6RoleOption
    \/ Step6ListItem
    \/ Step6LastText
    \/ Step7Prompt
    \/ Step7Inject
    \/ Step7Backoff
    \/ Step8Submit
    \/ _on_response
    \/ PollInit
    \/ PollCheck
    \/ PollTaskScan
    \/ PollImageScan
    \/ PollDom
    \/ PollSleep
    \/ PollExit
    \/ Finally
    \/ WithExit
    \/ generate_image_return
    \/ proxy_image

Spec == Init /\ [][Next]_vars

\* ------------------------------------------------------------------------
\*  The codec on its own: a locator is encoded (app.py 261), the client may
\*  drop trailing pad characters, the token is decoded (app.py 306)
\* ------------------------------------------------------------------------

MaxLocLen == 3

\* '>' and '?' give tokens the characters '-' and '_'; 233 and 8364 take
\* two and three bytes in UTF-8
CodecAlphabet == {62, 63, 97, 233, 8364}

RECURSIVE SeqsUpTo(_, _)
SeqsUpTo(S, n) ==
    IF n = 0 THEN {<<>>}
    ELSE LET P == SeqsUpTo(S, n - 1) IN
         P \cup {Append(q, x) : q \in {r \in P : Len(r) = n - 1}, x \in S}

CodecLocators == SeqsUpTo(CodecAlphabet, MaxLocLen)

CodecInit == \E u \in CodecLocators : InitWith("codec_start", <<>>, u)

EncodeLocator ==
    /\ pc = "codec_start"
    /\ rtoken' = _encode_url(image_url)
    /\ pc' = "codec_encoded"
    /\ UNCHANGED <<req, args, coreInvoked, cprompt, browser, tryEntered, closeCalled, events,
                   clock, start, image_url, task_id, exc, ret, resp, rfetch, call, loop>>

StripPadding ==
    /\ pc = "codec_encoded"
    /\ \E k \in 1..2 :
         /\ k <= TrailingPads(rtoken)
         /\ rtoken' = SubSeq(rtoken, 1, Len(rtoken) - k)
    /\ pc' = "codec_stripped"
    /\ UNCHANGED <<req, args, coreInvoked, cprompt, browser, tryEntered, closeCalled, events,
                   clock, start, image_url, task_id, exc, ret, resp, rfetch, call, loop>>

DecodeToken ==
    /\ pc \in {"codec_encoded", "codec_stripped"}
    /\ LET decoded == _decode_url(rtoken) IN
         rfetch' = IF decoded.ok THEN decoded.val ELSE None
    /\ pc' = "codec_decoded"
    /\ UNCHANGED <<req, args, coreInvoked, cprompt, browser, tryEntered, closeCalled, events,
                   clock, start, image_url, task_id, exc, ret, resp, rtoken, call, loop>>

CodecNext == EncodeLocator \/ StripPadding \/ DecodeToken

CodecSpec == CodecInit /\ [][CodecNext]_vars

\* C8: decoding the token of a locator gives the locator back code point
\* for code point, also when trailing '=' were stripped from the token
\* before it is decoded.
C8_RoundTrip == pc = "codec_decoded" => rfetch = image_url

\* A locator of three characters and four bytes whose token lost both pads
C8_Witness ==
    /\ pc = "codec_decoded"
    /\ Len(image_url) = 3
    /\ TrailingPads(_encode_url(image_url)) = 2
    /\ TrailingPads(rtoken) = 0
    /\ rfetch = image_url

\* ------------------------------------------------------------------------
\*  The poll over a fixed sequence of captured events: one pass of the scans
\*  and of the DOM fallback, and the result
\* ------------------------------------------------------------------------

SearchLeaves ==
    {JStr(Cp("12345")), JStr(Cp("abc123")), JStr(Cp("job-000002")), JNum, JStr(UrlA)}

SearchKeys ==
    {"taskId", "task_id", "id", "jobId", "job_id", "requestId", "generationId", "uuid",
     "token", "TaskId", "data"}

\* One entry
SearchDicts1 == {JDict(<<k>>, <<v>>) : k \in SearchKeys, v \in SearchLeaves}

SearchLists == {JList(<<a, b>>) : a, b \in {JStr(Cp("12345")), JStr(UrlA), JNum}}

SearchNested ==
    { JStr(Cp("12345")), JStr(Cp("abc123")), JNum,
      JDict(<<"id">>, <<JStr(Cp("job-000002"))>>),
      JDict(<<"name">>, <<JStr(Cp("nested-name"))>>),
      JList(<<JNum, JDict(<<"uuid">>, <<JStr(Cp("uuid-0003"))>>)>>) }

\* Two entries, in both orders of the keys
SearchDicts2 ==
    { JDict(<<k1, k2>>, <<v1, v2>>) :
        k1 \in {"id", "data", "uuid"}, k2 \in {"id", "data", "token"},
        v1 \in SearchNested, v2 \in SearchNested }

SearchPayloads == SearchLeaves \cup SearchDicts1 \cup SearchLists \cup SearchDicts2

SearchEvents == {[t |-> t, d |-> d] : t \in {"generate", "query"}, d \in SearchPayloads}

\* The events of the longer sequences
SearchFewEvents ==
    {[t |-> t, d |-> d] :
        t \in {"generate", "query"},
        d \in {JNum, PGen, PQueryDoneA, JDict(<<"id">>, <<JStr(Cp("12345"))>>),
               JDict(<<"data", "id">>,
                     <<JList(<<JDict(<<"token">>, <<JStr(Cp("tok-000004"))>>)>>),
                       JStr(Cp("id-000005"))>>)}}

MaxSearchEvents == 2

SearchEventSeqs ==
    {<<>>} \cup {<<e>> : e \in SearchEvents} \cup SeqsUpTo(SearchFewEvents, MaxSearchEvents)

SearchInit == \E evs \in SearchEventSeqs : InitWith("poll_init", evs, None)

SearchNext ==
    \/ PollInit
    \/ PollCheck
    \/ PollTaskScan
    \/ PollImageScan
    \/ PollDom
    \/ PollExit

SearchSpec == SearchInit /\ [][SearchNext]_vars

\* ------------------------------------------------------------------------
\*  Step 7 on its own: core.generate called with a prompt of any length (the
\*  Gateway is not the only caller), the run standing before line 309
\* ------------------------------------------------------------------------

\* The most blanks at either end of a prompt passed to core.generate
MaxPad == 1

DirectPromptLengths == {1, CorePromptCap - 1, CorePromptCap, CorePromptCap + 1, CorePromptCap + 500}

DirectPrompts ==
    {Prompt(l, n, t) : l \in 0..MaxPad, n \in DirectPromptLengths, t \in 0..MaxPad}

PromptInit ==
    \E p \in DirectPrompts :
        /\ pc = "step7"
        /\ req = NoRequest
        /\ args = [prompt |-> p, aspect |-> "1:1", model |-> "nano-banana-pro"]
        /\ coreInvoked = TRUE
        /\ cprompt = p
        /\ browser = "open"
        /\ tryEntered = TRUE
        /\ closeCalled = FALSE
        /\ events = <<>>
        /\ clock = 0
        /\ start = 0
        /\ image_url = None
        /\ task_id = None
        /\ exc = NoExc
        /\ ret = NoResult
        /\ resp = NoResponse
        /\ rtoken = None
        /\ rfetch = None
        /\ call = DriverCall("select", StrategyTargets[1], NoPrompt, TRUE)
        /\ loop = 0

PromptNext == Step7Prompt \/ Step7Inject \/ Step7Backoff

PromptSpec == PromptInit /\ [][PromptNext]_vars

\* ------------------------------------------------------------------------
\*  Properties
\* ------------------------------------------------------------------------

PollPcs == {"poll_init", "poll_check", "poll_task", "poll_image", "poll_dom", "poll_sleep"}

\* core.generate has returned or raised
CoreLeft == coreInvoked /\ pc \in {"gw_return", "gw_done"}

\* C1: when core.generate returns or raises, the browser it launched is not
\* open any more, browser.close() was called if the try block was entered,
\* and neither the close nor the exit of the with block changes the
\* exception in flight or the value returned.
C1_TeardownOnEveryPath ==
    /\ [](CoreLeft => (browser # "open" /\ (tryEntered => closeCalled)))
    /\ [][(pc \in {"finally", "with_exit"}) => (exc' = exc /\ ret' = ret)]_vars

\* The close has failed and left the browser open while an exception of the
\* automation is in flight
C1_Witness ==
    /\ pc = "with_exit"
    /\ closeCalled
    /\ browser = "open"
    /\ exc.cls = "PlaywrightTimeoutError"

\* C2: the poll leaves without a locator only when the budget of
\* GEN_TIMEOUT seconds is spent, and then core.generate raises the
\* TimeoutError whose message names GEN_TIMEOUT and returns nothing; no
\* exception is in flight while the poll is running.
C2_TimeoutOnlyOnBudget ==
    /\ []((pc = "poll_exit" /\ ~Truthy(image_url)) => clock - start >= GEN_TIMEOUT)
    /\ [](exc.cls = "TimeoutError" =>
            /\ clock - start >= GEN_TIMEOUT
            /\ ~Truthy(image_url)
            /\ ret = NoResult
            /\ Contains(exc.msg, Cp("after ") \o IntToText(GEN_TIMEOUT) \o Cp(" seconds")))
    /\ [](pc \in PollPcs => exc = NoExc)
    /\ [][(pc = "poll_exit" /\ ~Truthy(image_url)) => exc'.cls = "TimeoutError"]_vars

\* The budget ran out after responses were captured, none with a locator
C2_Witness ==
    /\ pc = "finally"
    /\ exc.cls = "TimeoutError"
    /\ clock - start >= GEN_TIMEOUT
    /\ Len(events) = MaxEvents

\* A text that reads as an image locator: it names the image host, or it is
\* a secure URL ending in an image extension
ReadsAsLocator(v) ==
    \/ Contains(v, Cp("image.nanobanana"))
    \/ /\ StartsWith(v, Cp("https://"))
       /\ \E e \in {Cp(".png"), Cp(".jpg"), Cp(".jpeg"), Cp(".webp")} : EndsWith(v, e)

\* The matches of the locator search in a payload, in the order of a
\* depth-first walk: the entries of a dict in key order, each entry before
\* what lies below it, the items of a list in list order. A match is a text
\* stored under a key.
RECURSIVE LocatorMatches(_), MatchesFrom(_, _)
LocatorMatches(d) == IF d.ty \in {"dict", "list"} THEN MatchesFrom(d, 1) ELSE <<>>

MatchesFrom(d, i) ==
    IF i > Len(d.items) THEN <<>>
    ELSE (IF d.ty = "dict" /\ d.items[i].ty = "str" /\ ReadsAsLocator(d.items[i].s)
          THEN <<d.items[i].s>> ELSE <<>>)
         \o LocatorMatches(d.items[i]) \o MatchesFrom(d, i + 1)

\* The matches of the query events, in capture order
RECURSIVE QueryMatches(_)
QueryMatches(evs) ==
    IF evs = <<>> THEN <<>>
    ELSE (IF Head(evs).t = "query" THEN LocatorMatches(Head(evs).d) ELSE <<>>)
         \o QueryMatches(Tail(evs))

RecognizedTaskKeys ==
    {"taskId", "task_id", "id", "jobId", "job_id", "requestId", "generationId", "uuid", "token"}

\* The texts of more than five characters stored under a recognized key, in
\* the order of a depth-first walk: the entries of a dict in key order, each
\* entry before what lies below it, the items of a list in list order
RECURSIVE TaskIdCandidates(_), CandidatesFrom(_, _)
TaskIdCandidates(d) == IF d.ty \in {"dict", "list"} THEN CandidatesFrom(d, 1) ELSE <<>>

CandidatesFrom(d, i) ==
    IF i > Len(d.items) THEN <<>>
    ELSE (IF d.ty = "dict" /\ d.keys[i] \in RecognizedTaskKeys
             /\ d.items[i].ty = "str" /\ Len(d.items[i].s) > 5
          THEN <<d.items[i].s>> ELSE <<>>)
         \o TaskIdCandidates(d.items[i]) \o CandidatesFrom(d, i + 1)

RECURSIVE GenerateCandidates(_)
GenerateCandidates(evs) ==
    IF evs = <<>> THEN <<>>
    ELSE (IF Head(evs).t = "generate" THEN TaskIdCandidates(Head(evs).d) ELSE <<>>)
         \o GenerateCandidates(Tail(evs))

FirstCandidateOr(evs, none) ==
    IF GenerateCandidates(evs) = <<>> THEN none ELSE Head(GenerateCandidates(evs))

\* C4 as stated: the task identifier of the result is the first candidate of
\* the generate events, "unspecified" when there is none.
C4_AsStated ==
    (pc = "finally" /\ ret.success) => ret.task_id = FirstCandidateOr(events, Cp("unspecified"))

\* C4: the task identifier of the result is the first candidate of the
\* generate events, "unknown" when there is none.
C4_FirstTaskId ==
    (pc = "finally" /\ ret.success) => ret.task_id = FirstCandidateOr(events, Cp("unknown"))

\* A generate event was captured, its only identifier has five characters
C4_Witness ==
    /\ pc = "finally"
    /\ ret.success
    /\ ret.task_id = Cp("unknown")
    /\ events = <<[t |-> "generate", d |-> JDict(<<"id">>, <<JStr(Cp("12345"))>>)]>>

\* The aspect and the model a request names, the defaults when it names none
SentAspect(r) == ArgsGet(r.aspect, "1:1")

SentModel(r) == ArgsGet(r.model, "nano-banana-pro")

\* The four checks on the parameters as the Gateway reads them, the blanks
\* around each trimmed
TrimmedOk(r) ==
    /\ r.prompt.v.n > 0
    /\ r.prompt.v.n <= 2000
    /\ Strip(SentAspect(r)) \in ASPECT_MAP
    /\ Strip(SentModel(r)) \in VALID_MODELS

\* C5: a request whose prompt is empty after trimming or longer than 2000
\* characters, or whose aspect or model is not a key, is answered 400 and
\* core.generate is not called; core.generate is called only with the
\* parameters of a request that passes all four checks, and its own
\* validation never raises.
C5_GatewayFilters ==
    /\ (pc # "idle" /\ req # NoRequest /\ ~TrimmedOk(req)) => (~coreInvoked /\ resp.status = 400)
    /\ coreInvoked =>
         /\ TrimmedOk(req)
         /\ args.aspect = Strip(SentAspect(req)) /\ args.model = Strip(SentModel(req))
         /\ PromptLen(args.prompt) = req.prompt.v.n
         /\ exc.cls # "ValueError"

\* The prompt of 2001 characters is refused without a call of the Core
C5_Witness ==
    /\ pc = "gw_done"
    /\ req.prompt.v.n = 2001
    /\ resp.status = 400
    /\ ~coreInvoked

\* C6: a failure of core.generate that is neither the invalid parameter nor
\* the poll timeout is answered 502, the poll timeout 504.
C6_ErrorClasses ==
    (pc = "gw_done" /\ coreInvoked /\ exc # NoExc) =>
        /\ (exc = PollTimeoutError => resp.status = 504)
        /\ (exc.cls # "ValueError" /\ exc # PollTimeoutError => resp.status = 502)

\* C7: the Relay fetches a locator only if the token decodes to it and it
\* starts with https://; a token that does not decode, or decodes to
\* something else, is answered 400 with no fetch.
C7_RelayChecksScheme ==
    pc = "relay_done" =>
        LET decoded == _decode_url(rtoken) IN
        /\ rfetch # None => (decoded.ok /\ rfetch = decoded.val /\ StartsWith(rfetch, Cp("https://")))
        /\ (~decoded.ok \/ ~StartsWith(decoded.val, Cp("https://"))) =>
              (rfetch = None /\ resp.status = 400)

\* A token that decodes to an http:// locator was refused
C7_Witness ==
    /\ pc = "relay_done"
    /\ rtoken = _encode_url(DomSrcInsecure)
    /\ rfetch = None
    /\ resp.status = 400

\* The text names the locator or its host
Reveals(text, locator) ==
    Contains(text, locator) \/ (Len(HostOf(locator)) > 0 /\ Contains(text, HostOf(locator)))

\* C9: no text of a response of /generate or of /img names the raw locator
\* or its host.
C9_LocatorNeverInClear ==
    /\ (pc = "gw_done" /\ Truthy(ret.image_url)) =>
          \A t \in ResponseTexts(resp) : ~Reveals(t, ret.image_url)
    /\ (pc = "relay_done" /\ rfetch # None) =>
          \A t \in ResponseTexts(resp) : ~Reveals(t, rfetch)

\* C10: an iteration that finds a locator, by the scan or in the DOM, goes
\* straight to the end of the poll; a locator once found is never replaced
\* and no poll step follows it; no poll step follows the end of the poll;
\* the result carries the locator found.
C10_PollStops ==
    /\ [][/\ (pc \in {"poll_image", "poll_dom"} /\ Truthy(image_url')) => pc' = "poll_exit"
          /\ Truthy(image_url) => (image_url' = image_url /\ pc' \notin PollPcs)
          /\ pc \in {"poll_exit", "finally", "with_exit", "gw_return", "gw_done"}
                => pc' \notin PollPcs]_vars
    /\ [](ret.success => ret.image_url = image_url)

\* The DOM gave the locator after the poll had slept at least once
C10_Witness ==
    /\ pc = "finally"
    /\ ret.success
    /\ ret.image_url = DomSrcGood
    /\ clock > start

\* The positions of the three selection strategies
SelectionPcs == {"step6_a", "step6_b", "step6_c"}

\* The selection call of strategy i, clicked (ok) or thrown
Selection(i, ok) == DriverCall("select", StrategyTargets[i], NoPrompt, ok)

\* C11: the strategies run in the order role option, first list item, last
\* text; a strategy is entered only when the one before it has just thrown;
\* a click that took effect ends the selection with no exception, so that no
\* second click follows it; the selection raises only when the third
\* strategy throws, the first two having thrown before it.
C11_StrategiesInOrder ==
    /\ [][(pc # "step6_a" /\ pc' = "step6_a") => pc = "step6"]_vars
    /\ [][(pc # "step6_b" /\ pc' = "step6_b") => (pc = "step6_a" /\ call' = Selection(1, FALSE))]_vars
    /\ [][(pc # "step6_c" /\ pc' = "step6_c") => (pc = "step6_b" /\ call' = Selection(2, FALSE))]_vars
    /\ [][(pc \in SelectionPcs /\ pc' # pc /\ call'.ok) =>
             (pc' = "step7" /\ exc' = NoExc /\ \E i \in 1..3 : pc = StrategyPcs[i] /\ call' = Selection(i, TRUE))]_vars
    /\ [][(pc \in SelectionPcs /\ pc' = "finally") =>
             (pc = "step6_c" /\ call' = Selection(3, FALSE) /\ exc' # NoExc)]_vars
    /\ []((call.op = "select" /\ call.ok) => pc \notin SelectionPcs)

\* The first two strategies have thrown and the third has clicked
C11_Witness ==
    /\ pc = "step7"
    /\ call = Selection(3, TRUE)
    /\ exc = NoExc

\* q is the first k characters of p, all of p when p is shorter
FirstChars(q, p, k) ==
    /\ q.lead <= p.lead /\ q.n <= p.n /\ q.trail <= p.trail
    /\ q.n > 0 => q.lead = p.lead
    /\ q.trail > 0 => q.n = p.n
    /\ PromptLen(q) = IF PromptLen(p) < k THEN PromptLen(p) ELSE k

\* An injection call with the text v
Injection(v, ok) == DriverCall("inject", "#image-prompt", v, ok)

\* C12: every injection passes the first 2000 characters of the prompt
\* core.generate was given; there are at most three attempts; the first
\* follows the wait for the input, a later one follows the backoff wait
\* after an attempt that threw; an attempt that succeeds ends the loop, and
\* none follows it.
C12_InjectionRetries ==
    /\ [][pc = "step7_try" =>
             (\E ok \in BOOLEAN : call' = Injection(cprompt, ok))
             /\ FirstChars(call'.arg, args.prompt, 2000)]_vars
    /\ [](pc \in {"step7_try", "step7_backoff"} => loop \in 1..3)
    /\ [][pc' = "step7_try" =>
             \/ pc = "step7" /\ loop' = 1
             \/ pc = "step7_backoff" /\ loop' = loop + 1 /\ call.op = "inject" /\ ~call.ok]_vars
    /\ [][pc' = "step7_backoff" => (pc = "step7_try" /\ call'.op = "inject" /\ ~call'.ok)]_vars
    /\ [][(pc = "step7_try" /\ call'.ok) => pc' = "step8"]_vars
    /\ []((call.op = "inject" /\ call.ok) => pc \notin {"step7_try", "step7_backoff"})

\* A prompt of more than 2000 characters went in cut to 2000
C12_Witness ==
    /\ pc = "step8"
    /\ PromptLen(args.prompt) > 2000
    /\ call.op = "inject" /\ call.ok
    /\ PromptLen(call.arg) = 2000
    /\ call.arg.trail = 0 /\ call.arg.lead = 1

\* The positions of the registration at which a form element is looked for,
\* filled or clicked, and the positions of the navigations of the bootstrap
FormPcs == {"step2_name", "step2_email", "step2_count", "step2_pwd", "step2_submit"}

NavigationPcs == {"step1", "step2", "step3"}

\* C13: during the bootstrap no step on a form element raises: from each
\* the run goes on with no exception in flight, towards the generator page;
\* the run leaves the bootstrap with an exception only from a navigation.
C13_BootstrapBestEffort ==
    /\ [][(pc \in FormPcs /\ pc' # pc) => (exc' = NoExc /\ pc' \in FormPcs \cup {"step3"})]_vars
    /\ [][(pc \in FormPcs \cup NavigationPcs /\ pc' = "finally") => pc \in NavigationPcs]_vars

\* C14: when core.generate raises the timeout of the poll, no query event
\* among the captured events holds a match of the locator search.
C14_NoLocatorAtTimeout ==
    (pc = "finally" /\ exc = PollTimeoutError) => QueryMatches(events) = <<>>

====
